---- MODULE Spec2Model ----
(***************************************************************************)
(* The AudioTranscribe node of n8n-nodes-transcribe-audio: execute() of    *)
(* its two implementations,                                                *)
(*   "AudioTranscribeNode"  src/nodes/AudioTranscribeNode/                 *)
(*                          AudioTranscribe.node.ts (ffmpeg transcoding,   *)
(*                          writes into the input array), and              *)
(*   "part_000"             src/unnamed/part_000 (no transcoding, builds   *)
(*                          returnData),                                   *)
(* as one state machine: the import of the transformers module, the item   *)
(* loop, the stages of one item, the ffmpeg promise with its event         *)
(* handlers, the stereo downmix and the catch block.  Every await of       *)
(* execute() is a state of its own: what the awaited promise settles to    *)
(* and the code after the await are separate steps, and the callbacks of   *)
(* the output stream may run between them.                                 *)
(*                                                                         *)
(* Numbers.  A sample is an exact element of Q(sqrt 2): the record         *)
(* [r, s] stands for (r + s*sqrt(2)) / 4, so that SCALING_FACTOR =         *)
(* Math.sqrt(2) and the division by 2 of the downmix are computed without  *)
(* rounding.  A PCM level h stands for the float h/2 (-2 is -1.0, 2 is     *)
(* 1.0).                                                                   *)
(*                                                                         *)
(* Bytes.  A Buffer is a sequence of tokens [kind, v]: a WAV file is one   *)
(* "fmt" token carrying the channel count and the sample rate, followed by *)
(* interleaved "pcm" tokens; compressed audio is a sequence of "mp3"       *)
(* tokens.                                                                 *)
(*                                                                         *)
(* Resampling.  wav.toSampleRate(16000) keeps the samples of a file that   *)
(* is at 16 kHz.  Of a file at another rate it gives, for every channel,   *)
(* samples.length * 16000 / rate new samples whose values the model does   *)
(* not compute: they are any of ResampledLevels, which reach beyond full   *)
(* scale, as an interpolating resampler may.                               *)
(***************************************************************************)
EXTENDS Integers, Sequences, FiniteSets, TLC

VARIABLES
    impl,            \* which of the two implementations runs
    continueOnFail,  \* this.continueOnFail()
    input,           \* the batch as the host handed it over (never written)
    operation,       \* this.getNodeParameter('operation', itemIndex, '')
    audioInputType,  \* this.getNodeParameter('audioInputType', itemIndex, '')
    binaryPropertyName, \* this.getNodeParameter('binaryPropertyName', ...)
    transformersPromise, \* AudioTranscribeNode: the module's cached import
    items,           \* const items = this.getInputData()  (a live array)
    returnData,      \* part_000 only: const returnData = []
    itemIndex,       \* the loop counter
    pc,              \* where execute() is
    buffer,          \* the bytes of the current item
    ff,              \* the ffmpeg command, its output stream and the promise
    wav,             \* new WaveFile(...) after toBitDepth('32f')
    audioData,       \* let audioData = wav.getSamples()
    error,           \* the error the catch block caught
    outcome,         \* what execute() returned or threw
    log,             \* every stage started and every error caught:
                     \* <<itemIndex, stage>>, in order
    invocations      \* every call of transcriber(audioData)

\* What execute() is given and does not write once the item loop runs.
host == <<impl, continueOnFail, input, operation, audioInputType,
          binaryPropertyName, transformersPromise>>

vars == <<host, items, returnData, itemIndex, pc,
          buffer, ff, wav, audioData, error, outcome, log, invocations>>

\* Bounds of the model.
MaxItems == 2     \* items of a batch
MaxLen == 3       \* samples per channel (SpecDownmix)
MaxChunks == 2    \* chunks the engine writes (SpecTranscode)

Impls == {"AudioTranscribeNode", "part_000"}

-----------------------------------------------------------------------------
(* Exact arithmetic on (r + s*sqrt(2)) / 4.                                *)

Float(h) == [r |-> 2 * h, s |-> 0]

Add(a, b) == [r |-> a.r + b.r, s |-> a.s + b.s]

\* (a.r + a.s*q)(b.r + b.s*q) / 16 with q*q = 2, written over 4 again.
Mul(a, b) == [r |-> (a.r * b.r + 2 * a.s * b.s) \div 4,
              s |-> (a.r * b.s + a.s * b.r) \div 4]

Half(a) == [r |-> a.r \div 2, s |-> a.s \div 2]

\* s*sqrt(2) <= c, decided on integers.
SqrtLeq(s, c) ==
    IF s >= 0
    THEN c >= 0 /\ 2 * s * s <= c * c
    ELSE c >= 0 \/ 2 * s * s >= c * c

\* a <= b
Leq(a, b) == SqrtLeq(a.s - b.s, b.r - a.r)

Neg(a) == [r |-> 0 - a.r, s |-> 0 - a.s]

One == Float(2)

\* const SCALING_FACTOR = Math.sqrt(2);
SCALING_FACTOR == [r |-> 0, s |-> 4]

-----------------------------------------------------------------------------
(* Buffers and WAV files.                                                  *)

FmtAt(c, rate) == [kind |-> "fmt", v |-> c, rate |-> rate]
Fmt(c) == FmtAt(c, 16000)
Pcm(h) == [kind |-> "pcm", v |-> h]
Mp3(h) == [kind |-> "mp3", v |-> h]

\* Buffer.concat(chunks)
RECURSIVE Concat(_)
Concat(chunks) ==
    IF chunks = <<>> THEN <<>> ELSE Head(chunks) \o Concat(Tail(chunks))

\* new WaveFile(bytes) throws unless the bytes are a RIFF/WAVE container;
\* getSamples() needs whole frames (new Float64Array(n) of a fraction throws).
WaveFileOk(bytes) ==
    /\ Len(bytes) > 0
    /\ bytes[1].kind = "fmt"
    /\ bytes[1].v >= 1
    /\ \A i \in 2..Len(bytes) : bytes[i].kind = "pcm"
    /\ (Len(bytes) - 1) % bytes[1].v = 0

\* new WaveFile(bytes); wav.toBitDepth('32f')
WaveFile(bytes) ==
    [numChannels |-> bytes[1].v,
     sampleRate |-> bytes[1].rate,
     samples |-> [i \in 1..(Len(bytes) - 1) |-> Float(bytes[i + 1].v)]]

\* The values a resampled sample may take: PCM levels up to one and a half
\* times full scale.
ResampledLevels == {-3, -2, 0, 2, 3}

\* wav.toSampleRate(16000): every file the call may leave in wav.
ToSampleRate(w) ==
    IF w.sampleRate = 16000
    THEN {w}
    ELSE LET n == Len(w.samples) \div w.numChannels
             m == (n * 16000) \div w.sampleRate
         IN  {[numChannels |-> w.numChannels,
               sampleRate |-> 16000,
               samples |-> [i \in 1..(m * w.numChannels) |-> Float(f[i])]] :
                 f \in [1..(m * w.numChannels) -> ResampledLevels]}

\* wav.getSamples(): one Float64Array for mono (Array.isArray is false),
\* an Array of one Float64Array per channel otherwise (de-interleaved).
GetSamples(w) ==
    LET n == Len(w.samples) \div w.numChannels
    IN  IF w.numChannels > 1
        THEN [isArray |-> TRUE,
              channels |-> [c \in 1..w.numChannels |->
                             [i \in 1..n |-> w.samples[(i - 1) * w.numChannels + c]]]]
        ELSE [isArray |-> FALSE, channels |-> <<w.samples>>]

\* The bytes of the WAV file holding these channels of PCM levels at this rate.
WavBytes(chans, rate) ==
    LET nc == Len(chans)
        n == Len(chans[1])
    IN  <<FmtAt(nc, rate)>> \o [k \in 1..(nc * n) |->
                                   Pcm(chans[((k - 1) % nc) + 1][((k - 1) \div nc) + 1])]

-----------------------------------------------------------------------------
(* The downmix/scale step.                                                 *)

\* The downmix without its division by 2.
DownmixSampleNoHalf(left, right) == Mul(SCALING_FACTOR, Add(left, right))

\* SCALING_FACTOR * (audioData[0][i] + audioData[1][i]) / 2
DownmixSample(left, right) == Half(Mul(SCALING_FACTOR, Add(left, right)))

\* audioData[0][i] = ...: a store past the end of a Float64Array is dropped.
\* i counts from 0 as in the source; the sequences count from 1.
DownmixStore(chans, i) ==
    IF i + 1 <= Len(chans[1])
    THEN [chans EXCEPT ![1][i + 1] = DownmixSample(chans[1][i + 1], chans[2][i + 1])]
    ELSE chans

\* for (let i = 0; i < audioData.length; i++) { ... }
\* audioData.length is the length of the Array, the number of channels.
RECURSIVE DownmixLoop(_, _)
DownmixLoop(chans, i) ==
    IF i < Len(chans) THEN DownmixLoop(DownmixStore(chans, i), i + 1) ELSE chans

\* if (Array.isArray(audioData)) { if (audioData.length > 0) {loop}
\*   audioData = audioData[0] }
Downmix(a) ==
    IF a.isArray
    THEN [isArray |-> FALSE,
          channels |-> <<(IF Len(a.channels) > 0
                          THEN DownmixLoop(a.channels, 0)
                          ELSE a.channels)[1]>>]
    ELSE a

\* The transcription invoker: opaque, a function of the samples it is given.
Transcription(samples) == [text |-> samples]

-----------------------------------------------------------------------------
(* Errors.  message is a sequence of pieces of text; hasContext says       *)
(* whether the error object has a context property, itemIndex is           *)
(* context.itemIndex (-1: not set).                                        *)

\* new NodeOperationError(this.getNode(), message, { itemIndex })
NodeOperationError(message, k) ==
    [name |-> "NodeOperationError", message |-> message,
     hasContext |-> TRUE, itemIndex |-> k]

\* What a collaborator (pipeline, transcriber, a host helper) may throw: an
\* error with or without a context of its own, which names no item.
ExternalErrors(text) ==
    {[name |-> "Error", message |-> <<text>>, hasContext |-> c, itemIndex |-> -1] :
        c \in BOOLEAN}

\* new WaveFile(...) throws a plain Error.
WaveFileError ==
    [name |-> "Error", message |-> <<"Not a supported format.">>,
     hasContext |-> FALSE, itemIndex |-> -1]

\* Reading a property of undefined: .data of a binary property that is not
\* there, [0] of an input that has no data.
TypeError ==
    [name |-> "TypeError", message |-> <<"Cannot read properties of undefined">>,
     hasContext |-> FALSE, itemIndex |-> -1]

\* An error of the host or of the module loader: a plain Error, no context,
\* with a text of its own that the node adds nothing to.
PlainError ==
    [name |-> "Error", message |-> <<>>, hasContext |-> FALSE, itemIndex |-> -1]

NoError == [name |-> "none", message |-> <<>>, hasContext |-> FALSE, itemIndex |-> -1]

-----------------------------------------------------------------------------
(* The input.                                                              *)

MonoWav == <<Fmt(1), Pcm(2), Pcm(-1)>>
StereoWav == <<Fmt(2), Pcm(2), Pcm(2), Pcm(0), Pcm(2), Pcm(1), Pcm(1)>>
TriWav == <<Fmt(3), Pcm(2), Pcm(0), Pcm(1), Pcm(1), Pcm(1), Pcm(1)>>
CorruptWav == <<Pcm(1), Pcm(2)>>
Mono44kWav == <<FmtAt(1, 44100), Pcm(2), Pcm(2), Pcm(2)>>
Mp3Data == <<Mp3(2), Mp3(-2)>>

Binary(mime, ext, isString, bytes) ==
    [mimeType |-> mime, fileExtension |-> ext, dataIsString |-> isString,
     data |-> bytes]

\* The binary properties of the items the model runs on.
Payloads ==
    {Binary("audio/mpeg", "mp3", TRUE, Mp3Data),
     Binary("audio/mp3", "none", TRUE, Mp3Data),
     Binary("application/octet-stream", "mp3", TRUE, Mp3Data),
     Binary("audio/wav", "wav", TRUE, MonoWav),
     Binary("audio/wav", "wav", TRUE, StereoWav),
     Binary("audio/wav", "wav", TRUE, TriWav),
     Binary("none", "none", TRUE, MonoWav),
     Binary("audio/wav", "wav", TRUE, Mono44kWav),
     Binary("audio/wav", "wav", TRUE, CorruptWav),
     Binary("audio/wav", "wav", FALSE, MonoWav)}

NoBinary == [absent |-> TRUE]

\* Item k of a batch: json names the item; binary is left out when absent,
\* and holds its one property under the name 'data' otherwise.
Item(k, b) ==
    IF b = NoBinary
    THEN [json |-> [id |-> k]]
    ELSE [json |-> [id |-> k], binary |-> [data |-> b]]

\* The values of the node parameters: the ones the node offers ('transcribe',
\* 'binaryFile', the default property name 'data') and one other each.
Operations == {"transcribe", "other"}
AudioInputTypes == {"binaryFile", "other"}
PropertyNames == {"data", "audio"}

Batches(binaries) ==
    UNION {{[k \in 1..n |-> Item(k - 1, f[k])] : f \in [1..n -> binaries]} :
             n \in 0..MaxItems}

\* item.binary === undefined
BinaryUndefined(item) == "binary" \notin DOMAIN item

\* mimeType === 'audio/mpeg' || mimeType === 'audio/mp3' || fileExtension === 'mp3'
NeedsTranscode(mimeType, fileExtension) ==
    mimeType = "audio/mpeg" \/ mimeType = "audio/mp3" \/ fileExtension = "mp3"

\* item.binary[binaryPropertyName] is undefined
PropertyUndefined(item) == binaryPropertyName \notin DOMAIN item.binary

\* binaryItem = item.binary[binaryPropertyName]
BinaryItem(item) == item.binary[binaryPropertyName]

\* The inputs of the node: inputs: [NodeConnectionType.Main]
Inputs == <<"main">>

\* this.getInputData(inputIndex) throws for an index beyond the place after
\* the last input,
GetInputDataThrows(inputIndex) == Len(Inputs) < inputIndex

\* and otherwise returns the items of input inputIndex, undefined (here <<>>)
\* for the place after the last.
GetInputData(inputIndex) == IF inputIndex < Len(Inputs) THEN items ELSE <<>>

-----------------------------------------------------------------------------
(* The transcoding engine.                                                 *)

IdleFfmpeg ==
    [state |-> "idle", script |-> <<>>, written |-> <<>>, pipe |-> <<>>,
     chunks |-> <<>>, promise |-> "none", value |-> <<>>, reason |-> NoError,
     settles |-> 0, late |-> 0, stderr |-> <<>>, exit |-> "none"]

\* What ffmpeg writes for these bytes (.format('wav').audioCodec('pcm_s16le')
\* .audioFrequency(16000).audioChannels(1)): a mono WAV, header first.
EngineScript(bytes) ==
    IF Len(bytes) = 0
    THEN <<>>
    ELSE <<<<Fmt(1)>>, [i \in 1..Len(bytes) |-> Pcm(bytes[i].v)]>>

StartFfmpeg(bytes) ==
    [IdleFfmpeg EXCEPT !.state = "running", !.script = EngineScript(bytes),
                       !.promise = "pending"]

\* resolve(value) and reject(reason) of the promise: the first call settles.
Resolve(f, v) ==
    IF f.promise = "pending"
    THEN [f EXCEPT !.promise = "resolved", !.value = v, !.settles = @ + 1]
    ELSE [f EXCEPT !.settles = @ + 1]

Reject(f, e) ==
    IF f.promise = "pending"
    THEN [f EXCEPT !.promise = "rejected", !.reason = e, !.settles = @ + 1]
    ELSE [f EXCEPT !.settles = @ + 1]

\* The engine's diagnostics and the message of the error it reports, which
\* carries the last lines of the diagnostics.
StderrTexts == {<<>>, <<"banner">>, <<"banner", "Invalid data found">>}

Suffixes(s) == {SubSeq(s, i, Len(s)) : i \in 1..(Len(s) + 1)}

ErrMessage(extract) == <<"ffmpeg exited with code 1: ">> \o extract

\* `Conversion failed: ${err.message}`
ConversionFailed(errMessage, k) ==
    NodeOperationError(<<"Conversion failed: ">> \o errMessage, k)

-----------------------------------------------------------------------------
(* execute(): the item loop.                                               *)

Running == [kind |-> "running"]
Returned(output) == [kind |-> "returned", output |-> output]
Thrown(e) == [kind |-> "thrown", error |-> e]

Started(stage) == Append(log, <<itemIndex, stage>>)

\* The current item: item = items[itemIndex]
CurrentItem == items[itemIndex + 1]

\* getInitializedTransformers(), called before the loop and outside its try:
\* if (transformersPromise === null) { transformersPromise = (async () =>
\* {...})() } return transformersPromise.  The first call keeps the pending
\* promise of the import in the module, every call returns the promise the
\* module holds, and execute() waits for it.
GetInitializedTransformers ==
    /\ pc = "init"
    /\ transformersPromise' = IF transformersPromise = "null"
                              THEN "pending"
                              ELSE transformersPromise
    /\ pc' = "import"
    /\ UNCHANGED <<impl, continueOnFail, input, operation, audioInputType,
                   binaryPropertyName, items, returnData, itemIndex, buffer, ff,
                   wav, audioData, error, outcome, log, invocations>>

\* const T = await import('@huggingface/transformers'); ...; return T: the
\* import settles, and with it the promise the module holds, whichever
\* execution started it.
ImportTransformers ==
    /\ transformersPromise = "pending"
    /\ transformersPromise' \in {"fulfilled", "rejected"}
    /\ UNCHANGED <<impl, continueOnFail, input, operation, audioInputType,
                   binaryPropertyName, items, returnData, itemIndex, pc, buffer,
                   ff, wav, audioData, error, outcome, log, invocations>>

\* const { pipeline } = await getInitializedTransformers(): the code after the
\* await runs once the promise is settled; when it is rejected, execute()
\* rejects with the error as it is, in either mode.
AwaitInitializedTransformers ==
    /\ pc = "import"
    /\ transformersPromise \in {"fulfilled", "rejected"}
    /\ IF transformersPromise = "fulfilled"
       THEN /\ pc' = "loop"
            /\ outcome' = outcome
       ELSE /\ outcome' = Thrown(PlainError)
            /\ pc' = "done"
    /\ UNCHANGED <<host, items, returnData, itemIndex, buffer, ff,
                   wav, audioData, error, log, invocations>>

\* for (...; itemIndex < items.length; ...) { try { the four getNodeParameter
\*   calls; item = items[itemIndex];
\*   if (operation === 'transcribe') { if (audioInputType === 'binaryFile') {
\*     if (item.binary === undefined) throw new NodeOperationError(...)
\* With another operation or input type nothing is done for the item.
BeginItem ==
    /\ pc = "loop"
    /\ itemIndex < Len(items)
    /\ IF ~(operation = "transcribe" /\ audioInputType = "binaryFile")
       THEN /\ itemIndex' = itemIndex + 1
            /\ UNCHANGED <<error, pc, log>>
       ELSE IF BinaryUndefined(CurrentItem)
       THEN /\ error' = NodeOperationError(<<"No binary data found on item!">>, itemIndex)
            /\ pc' = "catch"
            /\ UNCHANGED <<log, itemIndex>>
       ELSE /\ error' = error
            /\ pc' = "load"
            /\ log' = Started("load")
            /\ itemIndex' = itemIndex
    /\ UNCHANGED <<host, items, returnData,
                   buffer, ff, wav, audioData, outcome, invocations>>

\* The loop is over: return [items]  /  return this.prepareOutputData(returnData)
Return ==
    /\ pc = "loop"
    /\ itemIndex >= Len(items)
    /\ outcome' = Returned(IF impl = "AudioTranscribeNode" THEN items ELSE returnData)
    /\ pc' = "done"
    /\ UNCHANGED <<host, items, returnData, itemIndex,
                   buffer, ff, wav, audioData, error, log, invocations>>

\* const transcriber = await pipeline('automatic-speech-recognition', model, ...)
LoadModel ==
    /\ pc = "load"
    /\ \/ /\ pc' = "buffer"
          /\ error' = error
       \/ /\ \E e \in ExternalErrors("model load failed") : error' = e
          /\ pc' = "catch"
    /\ UNCHANGED <<host, items, returnData, itemIndex,
                   buffer, ff, wav, audioData, outcome, log, invocations>>

\* AudioTranscribeNode: binaryItem = item.binary[binaryPropertyName]; the typeof
\* check, which throws a TypeError when there is no such property;
\* Buffer.from(binaryItem.data, 'base64'); then the format test, which either
\* starts ffmpeg on the bytes or takes them as they are.
\* part_000: await this.helpers.getBinaryDataBuffer(itemIndex, name), which
\* fails when there is no such property; the bytes go to WaveFile as they are.
ReadBinary ==
    /\ pc = "buffer"
    /\ IF PropertyUndefined(CurrentItem)
       THEN /\ \E e \in (IF impl = "AudioTranscribeNode"
                        THEN {TypeError}
                        ELSE ExternalErrors("getBinaryDataBuffer failed")) :
                  error' = e
            /\ pc' = "catch"
            /\ UNCHANGED <<buffer, ff, log>>
       ELSE
       LET b == BinaryItem(CurrentItem)
       IN  IF ~b.dataIsString
           THEN /\ \E e \in (IF impl = "AudioTranscribeNode"
                            THEN {NodeOperationError(
                                    <<"Expected binary data to be a string!">>, itemIndex)}
                            ELSE ExternalErrors("getBinaryDataBuffer failed")) :
                      error' = e
                /\ pc' = "catch"
                /\ UNCHANGED <<buffer, ff, log>>
           ELSE IF impl = "AudioTranscribeNode"
                    /\ NeedsTranscode(b.mimeType, b.fileExtension)
           THEN /\ buffer' = b.data
                /\ ff' = StartFfmpeg(b.data)
                /\ pc' = "ffmpeg"
                /\ log' = Started("ffmpeg")
                /\ error' = error
           ELSE /\ buffer' = b.data
                /\ pc' = "parse"
                /\ UNCHANGED <<ff, log, error>>
    /\ UNCHANGED <<host, items, returnData, itemIndex,
                   wav, audioData, outcome, invocations>>

\* The engine writes its next chunk to the output stream (.pipe()).
EngineWrite ==
    /\ ff.state = "running"
    /\ ff.script # <<>>
    /\ ff' = [ff EXCEPT !.script = Tail(@),
                        !.written = Append(@, Head(ff.script)),
                        !.pipe = Append(@, Head(ff.script))]
    /\ UNCHANGED <<host, items, returnData, itemIndex, pc,
                   buffer, wav, audioData, error, outcome, log, invocations>>

\* .on('data', (data) => { chunks.push(data); }) of the output stream
OnData ==
    /\ ff.pipe # <<>>
    /\ ff' = [ff EXCEPT !.pipe = Tail(@),
                        !.chunks = Append(@, Head(ff.pipe)),
                        !.late = IF ff.promise = "pending" THEN @ ELSE @ + 1]
    /\ UNCHANGED <<host, items, returnData, itemIndex, pc,
                   buffer, wav, audioData, error, outcome, log, invocations>>

\* The engine exits with status 0 once it has written everything:
\* .on('end', () => { resolve(Buffer.concat(chunks)); })
OnEnd ==
    /\ pc = "ffmpeg"
    /\ ff.state = "running"
    /\ ff.script = <<>>
    /\ ff' = [Resolve(ff, Concat(ff.chunks)) EXCEPT !.state = "exited", !.exit = "ok"]
    /\ UNCHANGED <<host, items, returnData, itemIndex, pc,
                   buffer, wav, audioData, error, outcome, log, invocations>>

\* The engine exits with an error status:
\* .on('error', (err, stdout, stderr) => { log both; reject(new
\*   NodeOperationError(..., `Conversion failed: ${err.message}`, {itemIndex})) })
OnError ==
    /\ pc = "ffmpeg"
    /\ ff.state = "running"
    /\ \E stderr \in StderrTexts : \E extract \in Suffixes(stderr) :
          ff' = [Reject(ff, ConversionFailed(ErrMessage(extract), itemIndex))
                    EXCEPT !.state = "exited", !.exit = "error", !.stderr = stderr]
    /\ UNCHANGED <<host, items, returnData, itemIndex, pc,
                   buffer, wav, audioData, error, outcome, log, invocations>>

\* const audioBufferWav = await new Promise<Buffer>(...): the code after the
\* await runs once the promise is settled, with its value, or throws its
\* reason into the catch block.
AwaitAudioBufferWav ==
    /\ pc = "ffmpeg"
    /\ ff.promise # "pending"
    /\ IF ff.promise = "resolved"
       THEN /\ buffer' = ff.value
            /\ pc' = "parse"
            /\ error' = error
       ELSE /\ error' = ff.reason
            /\ pc' = "catch"
            /\ buffer' = buffer
    /\ UNCHANGED <<host, items, returnData, itemIndex,
                   ff, wav, audioData, outcome, log, invocations>>

\* const wav = new WaveFile(audioBufferWav); wav.toBitDepth('32f');
\* wav.toSampleRate(16000); let audioData = wav.getSamples();
Parse ==
    /\ pc = "parse"
    /\ log' = Started("parse")
    /\ IF WaveFileOk(buffer)
       THEN /\ wav' \in ToSampleRate(WaveFile(buffer))
            /\ audioData' = GetSamples(wav')
            /\ pc' = "downmix"
            /\ error' = error
       ELSE /\ error' = WaveFileError
            /\ pc' = "catch"
            /\ UNCHANGED <<wav, audioData>>
    /\ UNCHANGED <<host, items, returnData, itemIndex,
                   buffer, ff, outcome, invocations>>

\* if (Array.isArray(audioData)) { ... audioData = audioData[0] }
DownmixStep ==
    /\ pc = "downmix"
    /\ audioData' = Downmix(audioData)
    /\ pc' = "transcribe"
    /\ UNCHANGED <<host, items, returnData, itemIndex,
                   buffer, ff, wav, error, outcome, log, invocations>>

\* The output record of a transcribed item.
\* AudioTranscribeNode: item.json.transcription = result   (the item itself)
\* part_000: newItem = { ...item, json: { ...item.json } };
\*           newItem.json.transcription = result
WithTranscription(item, result) ==
    [item EXCEPT !.json = [id |-> item.json.id, transcription |-> result]]

\* transcriber(audioData): the call, whose result is awaited.
Transcribe ==
    /\ pc = "transcribe"
    /\ log' = Started("transcribe")
    /\ invocations' = Append(invocations,
                             [itemIndex |-> itemIndex, samples |-> audioData.channels[1]])
    /\ pc' = "result"
    /\ UNCHANGED <<host, items, returnData, itemIndex,
                   buffer, ff, wav, audioData, error, outcome>>

\* let result = await ...: the code after the await stores the record and the
\* loop goes to the next item, or the rejection is thrown into the catch block.
StoreTranscription ==
    /\ pc = "result"
    /\ \/ /\ IF impl = "AudioTranscribeNode"
             THEN /\ items' = [items EXCEPT ![itemIndex + 1] =
                                 WithTranscription(@, Transcription(audioData.channels[1]))]
                  /\ returnData' = returnData
             ELSE /\ returnData' = Append(returnData,
                                     WithTranscription(CurrentItem,
                                        Transcription(audioData.channels[1])))
                  /\ items' = items
          /\ itemIndex' = itemIndex + 1
          /\ pc' = "loop"
          /\ error' = error
       \/ /\ \E e \in ExternalErrors("inference failed") : error' = e
          /\ pc' = "catch"
          /\ UNCHANGED <<items, returnData, itemIndex>>
    /\ UNCHANGED <<host, buffer, ff, wav, audioData, outcome, log, invocations>>

\* The error record of the catch block.
ErrorRecord(json, e, k) == [json |-> json, error |-> e, pairedItem |-> k]

\* The rethrow that leaves an error with a context as it came.
RethrowAsIs(e, k) ==
    IF e.hasContext THEN e ELSE NodeOperationError(e.message, k)

\* error.context ? (error.context.itemIndex = itemIndex; throw error)
\*               : throw new NodeOperationError(this.getNode(), error, {itemIndex})
Rethrow(e, k) ==
    IF e.hasContext
    THEN [e EXCEPT !.itemIndex = k]
    ELSE NodeOperationError(e.message, k)

\* } catch (error) { if (this.continueOnFail()) { push the error record }
\*                   else { throw } }
\* AudioTranscribeNode pushes onto items, with the json of
\* this.getInputData(itemIndex)[0], where getInputData may throw and [0] of
\* undefined does throw, out of execute(); part_000 pushes onto returnData,
\* with a copy of items[itemIndex].json.
Catch ==
    /\ pc = "catch"
    /\ IF ~continueOnFail
       THEN /\ outcome' = Thrown(Rethrow(error, itemIndex))
            /\ pc' = "done"
            /\ UNCHANGED <<items, returnData, itemIndex>>
       ELSE IF impl = "part_000"
       THEN /\ returnData' = Append(returnData,
                                    ErrorRecord(CurrentItem.json, error, itemIndex))
            /\ itemIndex' = itemIndex + 1
            /\ pc' = "loop"
            /\ UNCHANGED <<items, outcome>>
       ELSE IF GetInputDataThrows(itemIndex)
       THEN /\ outcome' = Thrown(PlainError)
            /\ pc' = "done"
            /\ UNCHANGED <<items, returnData, itemIndex>>
       ELSE IF Len(GetInputData(itemIndex)) > 0
       THEN /\ items' = Append(items,
                               ErrorRecord(GetInputData(itemIndex)[1].json, error, itemIndex))
            /\ itemIndex' = itemIndex + 1
            /\ pc' = "loop"
            /\ UNCHANGED <<returnData, outcome>>
       ELSE /\ outcome' = Thrown(TypeError)
            /\ pc' = "done"
            /\ UNCHANGED <<items, returnData, itemIndex>>
    /\ log' = Started("catch")
    /\ UNCHANGED <<host, buffer, ff, wav, audioData, error,
                   invocations>>

-----------------------------------------------------------------------------
(* Spec: execute() on every batch of up to MaxItems items, under every     *)
(* value of the node parameters, from const items = this.getInputData().   *)
(* The import of the transformers module may have been started by another  *)
(* execution, and may still be pending; part_000 imports statically and    *)
(* has no such state.                                                      *)

NoWav == [numChannels |-> 0, sampleRate |-> 0, samples |-> <<>>]
NoAudio == [isArray |-> FALSE, channels |-> <<>>]

Init ==
    /\ impl \in Impls
    /\ continueOnFail \in BOOLEAN
    /\ input \in Batches(Payloads \cup {NoBinary})
    /\ operation \in Operations
    /\ audioInputType \in AudioInputTypes
    /\ binaryPropertyName \in PropertyNames
    /\ transformersPromise \in (IF impl = "AudioTranscribeNode"
                                THEN {"null", "pending", "fulfilled", "rejected"}
                                ELSE {"absent"})
    /\ items = input
    /\ returnData = <<>>
    /\ itemIndex = 0
    /\ pc = IF impl = "AudioTranscribeNode" THEN "init" ELSE "loop"
    /\ buffer = <<>>
    /\ ff = IdleFfmpeg
    /\ wav = NoWav
    /\ audioData = NoAudio
    /\ error = NoError
    /\ outcome = Running
    /\ log = <<>>
    /\ invocations = <<>>

Next ==
    \/ GetInitializedTransformers
    \/ ImportTransformers
    \/ AwaitInitializedTransformers
    \/ BeginItem
    \/ Return
    \/ LoadModel
    \/ ReadBinary
    \/ EngineWrite
    \/ OnData
    \/ OnEnd
    \/ OnError
    \/ AwaitAudioBufferWav
    \/ Parse
    \/ DownmixStep
    \/ Transcribe
    \/ StoreTranscription
    \/ Catch

Spec == Init /\ [][Next]_vars

-----------------------------------------------------------------------------
(* SpecDownmix: the normalisation and downmix of one WAV item, on every    *)
(* mono and stereo file of up to MaxLen samples per channel at 16 kHz, and *)
(* on the files at 24 kHz and 44.1 kHz whose channels are each at one      *)
(* level, under everything the resampling may give for them.               *)

Levels == {-2, 0, 1, 2}

ChannelSets ==
    UNION {[1..nc -> [1..n -> Levels]] : nc \in {1, 2}, n \in 0..MaxLen}

SampleRates == {16000, 24000, 44100}

\* Every sample of the channel has the level of the first.
Constant(ch) == \A i \in 1..Len(ch) : ch[i] = ch[1]

WavFiles ==
    {WavBytes(chans, 16000) : chans \in ChannelSets}
      \cup {WavBytes(chans, rate) :
               chans \in {cs \in ChannelSets : \A c \in 1..Len(cs) : Constant(cs[c])},
               rate \in SampleRates}

InitDownmix ==
    /\ impl \in Impls
    /\ continueOnFail = FALSE
    /\ \E bytes \in WavFiles :
          input = <<Item(0, Binary("audio/wav", "wav", TRUE, bytes))>>
    /\ operation = "transcribe"
    /\ audioInputType = "binaryFile"
    /\ binaryPropertyName = "data"
    /\ transformersPromise = IF impl = "AudioTranscribeNode" THEN "fulfilled"
                                                            ELSE "absent"
    /\ items = input
    /\ returnData = <<>>
    /\ itemIndex = 0
    /\ pc = "parse"
    /\ buffer = BinaryItem(input[1]).data
    /\ ff = IdleFfmpeg
    /\ wav = NoWav
    /\ audioData = NoAudio
    /\ error = NoError
    /\ outcome = Running
    /\ log = <<<<0, "load">>>>
    /\ invocations = <<>>

NextDownmix == Parse \/ DownmixStep \/ Transcribe \/ StoreTranscription

SpecDownmix == InitDownmix /\ [][NextDownmix]_vars

-----------------------------------------------------------------------------
(* SpecTranscode: the ffmpeg promise of one compressed item, on every      *)
(* output of up to MaxChunks chunks and every order of the engine's and    *)
(* the output stream's events.                                             *)

ChunkSet == {<<Fmt(1)>>, <<Pcm(2)>>, <<Pcm(1), Pcm(-2)>>}

Scripts == UNION {[1..n -> ChunkSet] : n \in 0..MaxChunks}

InitTranscode ==
    /\ impl = "AudioTranscribeNode"
    /\ continueOnFail \in BOOLEAN
    /\ input = <<Item(0, Binary("audio/mpeg", "mp3", TRUE, Mp3Data))>>
    /\ operation = "transcribe"
    /\ audioInputType = "binaryFile"
    /\ binaryPropertyName = "data"
    /\ transformersPromise = "fulfilled"
    /\ items = input
    /\ returnData = <<>>
    /\ itemIndex = 0
    /\ pc = "ffmpeg"
    /\ buffer = Mp3Data
    /\ \E script \in Scripts :
          ff = [StartFfmpeg(Mp3Data) EXCEPT !.script = script]
    /\ wav = NoWav
    /\ audioData = NoAudio
    /\ error = NoError
    /\ outcome = Running
    /\ log = <<<<0, "load">>, <<0, "ffmpeg">>>>
    /\ invocations = <<>>

NextTranscode ==
    EngineWrite \/ OnData \/ OnEnd \/ OnError \/ AwaitAudioBufferWav \/ Parse \/ Catch

SpecTranscode == InitTranscode /\ [][NextTranscode]_vars

-----------------------------------------------------------------------------
(* What the claims speak of.                                               *)

InputIndices == 0..(Len(input) - 1)

\* The node is set to what it offers: the transcription of a binary file.
TranscribesBinaryFile == operation = "transcribe" /\ audioInputType = "binaryFile"

\* The transformers module could be imported, so that the item loop runs.
Imported == transformersPromise # "rejected"

\* Item k of the input has the binary property the node is set to read.
HasPayload(k) ==
    ~BinaryUndefined(input[k + 1]) /\ ~PropertyUndefined(input[k + 1])

Logged(k, stage) == \E p \in 1..Len(log) : log[p] = <<k, stage>>

\* The processing of item k raised an error.
Raised(k) == Logged(k, "catch") \/ (pc = "catch" /\ itemIndex = k)

\* transcriber(audioData) was called for item k.
Invoked(k) == \E j \in 1..Len(invocations) : invocations[j].itemIndex = k

\* What execute() returned.
Output == IF outcome.kind = "returned" THEN outcome.output ELSE <<>>

IsErrorRecord(r) == "error" \in DOMAIN r

HasTranscription(r) == "transcription" \in DOMAIN r.json

\* The places of the output that hold a record of item k: an error record by
\* its pairedItem, any other record by the json it carries.
PlacesOf(k) ==
    {q \in 1..Len(Output) :
        IF IsErrorRecord(Output[q])
        THEN Output[q].pairedItem = k
        ELSE Output[q].json.id = k}

\* a occurs in b as one piece
Contains(b, a) ==
    \E i \in 1..(Len(b) - Len(a) + 1) : SubSeq(b, i, i + Len(a) - 1) = a

\* The samples of the current item as decoded, before the downmix.
Decoded == GetSamples(wav).channels

\* |a|
Magnitude(a) == IF Leq(Neg(a), a) THEN a ELSE Neg(a)

-----------------------------------------------------------------------------
(* C1 -- Downmix of a stereo buffer: the sequence handed to the            *)
(* transcription invoker has, at every sample index i, the value           *)
(* sqrt(2) * (left[i] + right[i]) / 2 of the original left and right.      *)
(* The code stops after index 1 (the loop runs to the number of channels), *)
(* so the statement fails from three samples on.                           *)
C1_DownmixAtEverySample ==
    (pc = "transcribe" /\ wav.numChannels = 2) =>
        /\ Len(audioData.channels[1]) = Len(Decoded[1])
        /\ \A i \in 1..Len(Decoded[1]) :
              audioData.channels[1][i] =
                  Half(Mul(SCALING_FACTOR, Add(Decoded[1][i], Decoded[2][i])))

(* C2 -- A decoded buffer with more than two channels is rejected: the     *)
(* item ends in an UnsupportedChannelLayout error, the invoker is never    *)
(* called for it and no record with a transcription is produced for it.    *)
(* The code has no such test: it downmixes channels 0 and 1 and goes on.   *)
C2_MultichannelRejected ==
    /\ (pc \in {"downmix", "transcribe"} /\ wav.numChannels > 2) => FALSE
    /\ (pc = "catch" /\ Logged(itemIndex, "parse") /\ WaveFileOk(buffer)
           /\ buffer[1].v > 2) =>
          error.message = <<"UnsupportedChannelLayout">>
    /\ \A k \in InputIndices :
          (/\ HasPayload(k)
           /\ ~NeedsTranscode(BinaryItem(input[k + 1]).mimeType,
                              BinaryItem(input[k + 1]).fileExtension)
           /\ WaveFileOk(BinaryItem(input[k + 1]).data)
           /\ BinaryItem(input[k + 1]).data[1].v > 2) =>
              /\ ~Invoked(k)
              /\ \A q \in PlacesOf(k) : ~HasTranscription(Output[q])

(* C3 -- Under continue-on-failure, for every item k without an audio      *)
(* payload, execute returns normally and its output holds a record for k   *)
(* with k's own json, the error, and pairedItem = k.  (Of a node that      *)
(* transcribes binary files and whose item loop runs.)                     *)
C3_MissingInputRecorded ==
    \A k \in InputIndices :
        (continueOnFail /\ TranscribesBinaryFile /\ Imported
            /\ BinaryUndefined(input[k + 1])) =>
            /\ outcome.kind # "thrown"
            /\ outcome.kind = "returned" =>
                  \E q \in 1..Len(Output) :
                      /\ IsErrorRecord(Output[q])
                      /\ Output[q].pairedItem = k
                      /\ Output[q].json = input[k + 1].json
                      /\ Output[q].error.message = <<"No binary data found on item!">>

(* C4 -- Error isolation under continue-on-failure: every item that does   *)
(* not fail is still processed, whatever failed before it, and yields its  *)
(* own record (its data plus its transcription) exactly once; a failure of *)
(* one item never changes, drops or duplicates the output of another.      *)
(* (Of a node that transcribes binary files and whose item loop runs.)     *)
C4_ErrorIsolation ==
    (continueOnFail /\ TranscribesBinaryFile /\ Imported /\ pc = "done") =>
        \A k \in InputIndices :
            \/ Raised(k)
            \/ /\ Invoked(k)
               /\ outcome.kind = "returned"
               /\ Cardinality(PlacesOf(k)) = 1
               /\ \A q \in PlacesOf(k) : \E j \in 1..Len(invocations) :
                     /\ invocations[j].itemIndex = k
                     /\ Output[q] = WithTranscription(input[k + 1],
                                       Transcription(invocations[j].samples))

(* C5 -- Abort mode: the first item k whose processing raises an error, at *)
(* whatever stage, makes execute fail with an error whose itemIndex is k;  *)
(* nothing is started after the error, for k or for any later item, and no *)
(* output is returned.  Execute fails for no other reason than an item's   *)
(* error, but for the import of the transformers module, which fails       *)
(* before the first item.                                                  *)
C5_AbortOnFirstError ==
    ~continueOnFail =>
        /\ \A k \in 0..itemIndex : Raised(k) =>
              /\ k = itemIndex
              /\ pc \in {"catch", "done"}
              /\ outcome.kind # "returned"
              /\ pc = "done" =>
                    (outcome.kind = "thrown" /\ outcome.error.itemIndex = k)
              /\ \A p \in 1..Len(log) :
                    /\ log[p][1] <= k
                    /\ (log[p][2] = "catch" => p = Len(log))
              /\ \A j \in 1..Len(invocations) : invocations[j].itemIndex <= k
        /\ outcome.kind = "thrown" =>
              \/ Raised(itemIndex)
              \/ ~Imported /\ itemIndex = 0 /\ log = <<>> /\ invocations = <<>>

\* An item of a batch of several fails in abort mode after an earlier one was
\* transcribed, and execute has thrown.
C5_Witness ==
    /\ ~continueOnFail
    /\ outcome.kind = "thrown"
    /\ itemIndex >= 1
    /\ Invoked(0)
    /\ Logged(itemIndex, "catch")
    /\ Len(input) > 1

(* C6 -- Format classification decides transcoding: for every item with a  *)
(* payload the transcoder is invoked if and only if the MIME type is       *)
(* audio/mpeg or audio/mp3 or the extension is mp3; otherwise the input    *)
(* bytes go unchanged to WAV parsing.  part_000 never transcodes.          *)
C6_TranscodeIffCompressed ==
    \A k \in InputIndices :
        (HasPayload(k) /\ (Logged(k, "parse") \/ Logged(k, "ffmpeg"))) =>
            LET b == BinaryItem(input[k + 1])
            IN  /\ Logged(k, "ffmpeg") <=> NeedsTranscode(b.mimeType, b.fileExtension)
                /\ (itemIndex = k /\ pc = "parse"
                      /\ ~NeedsTranscode(b.mimeType, b.fileExtension)) =>
                        buffer = b.data

(* C7 -- Transcoder failure reporting: whenever the engine exits with an   *)
(* error status, or finishes having emitted no output bytes, the transcode *)
(* step fails with a ConversionFailed error whose message contains the     *)
(* engine's captured standard-error output verbatim.                       *)
C7_ConversionFailedCarriesStderr ==
    (ff.state = "exited"
        /\ (ff.exit = "error" \/ Concat(ff.written) = <<>>)) =>
        /\ ff.promise = "rejected"
        /\ Contains(ff.reason.message, <<"Conversion failed: ">>)
        /\ Contains(ff.reason.message, ff.stderr)

(* C8 (as claimed) -- every sample handed to the invoker lies in           *)
(* [-1.0, 1.0] after the downmix/scale step.                               *)
C8_UnitRange ==
    pc = "transcribe" =>
        \A i \in 1..Len(audioData.channels[1]) :
            /\ Leq(audioData.channels[1][i], One)
            /\ Leq(Neg(One), audioData.channels[1][i])

(* C8 (amended) -- for every mono or stereo input, every sample handed to  *)
(* the invoker is, in magnitude, at most sqrt(2) times the largest         *)
(* magnitude among the samples wav.getSamples() returned (the samples      *)
(* after the conversion to 32-bit float and to 16 kHz); a mono input is    *)
(* handed over as wav.getSamples() returned it.  So the samples handed     *)
(* over lie in [-sqrt(2), sqrt(2)] when those of wav.getSamples() lie in   *)
(* [-1.0, 1.0], and not in [-1.0, 1.0].                                    *)
C8_ScaledRange ==
    pc = "transcribe" =>
        /\ \A i \in 1..Len(audioData.channels[1]) :
              \E c \in 1..Len(Decoded) : \E j \in 1..Len(Decoded[c]) :
                  /\ Leq(audioData.channels[1][i],
                         Mul(SCALING_FACTOR, Magnitude(Decoded[c][j])))
                  /\ Leq(Neg(Mul(SCALING_FACTOR, Magnitude(Decoded[c][j]))),
                         audioData.channels[1][i])
        /\ wav.numChannels = 1 => audioData.channels[1] = Decoded[1]
        /\ (\A c \in 1..Len(Decoded) : \A j \in 1..Len(Decoded[c]) :
               Leq(Decoded[c][j], One) /\ Leq(Neg(One), Decoded[c][j])) =>
              \A i \in 1..Len(audioData.channels[1]) :
                  /\ Leq(audioData.channels[1][i], SCALING_FACTOR)
                  /\ Leq(Neg(SCALING_FACTOR), audioData.channels[1][i])

\* A stereo file that was resampled, whose downmix is handed over with a
\* sample above every sample wav.getSamples() returned, and above 1.0.
C8_Witness ==
    /\ pc = "transcribe"
    /\ wav.numChannels = 2
    /\ buffer[1].rate # wav.sampleRate
    /\ \E i \in 1..Len(audioData.channels[1]) :
          /\ ~Leq(audioData.channels[1][i], One)
          /\ \A c \in 1..2 : \A j \in 1..Len(Decoded[c]) :
                ~Leq(audioData.channels[1][i], Magnitude(Decoded[c][j]))

(* C9 -- Output shape: execute emits exactly one record per input item and *)
(* nothing else; for a transcribed item the record's json is the input     *)
(* json plus the one field transcription holding the invoker's result, and *)
(* for a failed item under continue-on-failure it is the error record      *)
(* alone.  (Of a node that transcribes binary files and whose item loop    *)
(* runs.)                                                                  *)
C9_OneRecordPerItem ==
    (TranscribesBinaryFile /\ Imported) =>
    /\ (continueOnFail /\ pc = "done") => outcome.kind = "returned"
    /\ outcome.kind = "returned" =>
          /\ Len(Output) = Len(input)
          /\ \A k \in InputIndices :
                /\ Cardinality(PlacesOf(k)) = 1
                /\ \A q \in PlacesOf(k) :
                      IF Raised(k)
                      THEN /\ IsErrorRecord(Output[q])
                           /\ Output[q].json = input[k + 1].json
                      ELSE \E j \in 1..Len(invocations) :
                              /\ invocations[j].itemIndex = k
                              /\ Output[q] = WithTranscription(input[k + 1],
                                                Transcription(invocations[j].samples))

(* C10 -- Transcode completes fully before normalization: under every      *)
(* order of the engine's 'end' and the output stream's 'data' events the   *)
(* promise settles exactly once; when it resolves, the buffer handed to    *)
(* WAV parsing is the concatenation, in order, of every chunk the engine   *)
(* wrote; no chunk is delivered after the promise has resolved.            *)
C10_TranscodeCompleteBeforeParse ==
    /\ ff.settles <= 1
    /\ ff.state = "exited" => ff.settles = 1
    /\ ff.promise = "resolved" =>
          /\ ff.value = Concat(ff.written)
          /\ ff.late = 0
    /\ (pc = "parse" /\ Logged(itemIndex, "ffmpeg")) => buffer = Concat(ff.written)

(* C11 -- Bounded iteration: for a batch of N items, in either failure     *)
(* mode, the item loop processes each input index 0..N-1 at most once and  *)
(* in increasing order, never processes an index >= N (a record the loop   *)
(* produced is never taken as an input item), and execute ends after at    *)
(* most N iterations.  AudioTranscribe.node.ts pushes its error records    *)
(* onto the array the loop runs over, so the loop goes on to index N.      *)
C11_BoundedIteration ==
    /\ itemIndex <= Len(input)
    /\ pc \notin {"init", "import", "loop", "done"} => itemIndex < Len(input)
    /\ \A p \in 1..Len(log) :
          /\ log[p][1] < Len(input)
          /\ \A q \in 1..Len(log) :
                /\ p < q => log[p][1] <= log[q][1]
                /\ (p # q /\ log[p] = log[q]) => FALSE
    /\ \A j \in 1..Len(invocations) : invocations[j].itemIndex < Len(input)

====
